---- MODULE Spec2Model ----
(***************************************************************************)
(* Model of streamlit_app.py (OpenPDF Master).                             *)
(*                                                                         *)
(* The script is re-executed from top to bottom on every widget event.     *)
(* The state kept between executions is the widget state (selectbox, file  *)
(* uploader, slider) and the environment (is pdftoppm on the PATH); what   *)
(* an execution renders is recorded in the remaining variables.  One       *)
(* action is one widget event together with the whole script run it        *)
(* causes.                                                                 *)
(*                                                                         *)
(* Byte strings are records: which upload they come from (kind, pageSize), *)
(* which part of it they hold (whole document or page 1), how they are     *)
(* encoded, and their length.  PyMuPDF, pdf2image, Pillow, img2pdf and     *)
(* pypdf are deterministic functions of their input; whether they raise    *)
(* depends on the kind of the document.                                    *)
(*                                                                         *)
(* Sizes are exact: ratio, estimated size and savings are kept as          *)
(* numerators over the sample size instead of floats.                      *)
(***************************************************************************)
EXTENDS Integers, Sequences, FiniteSets, TLC

\* ---- bounds ----
MaxSize == 2        \* largest length of an uploaded file / of a first-page sample
MaxFiles == 2       \* most files held by a multi-file uploader

\* ---- program constants ----
SliderMin == 0
SliderMax == 100
SliderDefault == 30
LosslessMax == 40

Options == {"Merge PDFs", "Compress PDF", "Convert PDF to Images", "Convert Images to PDF"}

Strengths == SliderMin..SliderMax

VARIABLES
    option,       \* st.sidebar.selectbox
    uploaded,     \* the file uploader of the current page: a sequence of uploads
    strength,     \* st.slider
    poppler,      \* environment: shutil.which("pdftoppm") finds the rasterizer
    trigger,      \* the widget event that caused the latest script run
    view          \* what the latest script run did and rendered:
                  \*   calls       engine and library calls, in order
                  \*   metrics     the three st.metric values, or NoMetrics
                  \*   caption     mode_text shown by st.caption, "" when none
                  \*   messages    st.error / st.warning / st.success texts, in order
                  \*   final_size  len(out_bytes) of the success message, -1 when none
                  \*   download    data of the st.download_button, NoBytes when none
                  \*   crashed     an exception escaped the script run

vars == <<option, uploaded, strength, poppler, trigger, view>>

\* ---- byte strings ----
NoBytes == [kind |-> "none", part |-> "none", enc |-> "none", dpi |-> 0,
            quality |-> 0, size |-> 0, pageSize |-> 0]

\* Files a user can pick in a type="pdf" uploader: the extension is all that
\* is checked, so the content may be anything.
PdfUploads ==
    { [kind |-> k, part |-> "whole", enc |-> "orig", dpi |-> 0, quality |-> 0,
       size |-> n, pageSize |-> p] :
         k \in {"valid", "unrenderable"}, n \in 1..MaxSize, p \in 0..MaxSize }
    \cup
    { [kind |-> k, part |-> "whole", enc |-> "orig", dpi |-> 0, quality |-> 0,
       size |-> n, pageSize |-> 0] :
         k \in {"malformed", "encrypted", "zeropage"}, n \in 1..MaxSize }

ImageUploads ==
    { [kind |-> k, part |-> "whole", enc |-> "orig", dpi |-> 0, quality |-> 0,
       size |-> n, pageSize |-> 0] :
         k \in {"image", "badimage"}, n \in 1..MaxSize }

\* ---- results of engine functions ----
Call(fn, part) == [fn |-> fn, part |-> part]

Ret(v, log, msgs) == [ok |-> TRUE, val |-> v, log |-> log, msgs |-> msgs]

Raise(log, msgs) == [ok |-> FALSE, val |-> NoBytes, log |-> log, msgs |-> msgs]

\* ---- the libraries ----
\* fitz.open(stream=..., filetype="pdf") parses the file structure.
fitz_open_ok(b) == b.kind \in {"valid", "unrenderable", "encrypted", "zeropage"}

\* insert_pdf(doc, from_page=0, to_page=0) and doc.save need readable pages.
fitz_pages_ok(b) == b.kind \in {"valid", "unrenderable"}

\* pdftoppm renders only what poppler can parse.
poppler_render_ok(b) == b.kind = "valid"

\* Length of what doc.save(garbage=4, deflate=True, clean=True) writes.
DeflatedSize(n) == (n + 1) \div 2

\* Length of the img2pdf document built from JPEGs rendered at dpi and
\* saved at quality.
JpegSize(n, dpi, quality) == 1 + (n * dpi * quality) \div (140 * 80)

\* ---- engine functions ----
get_first_page(input_bytes) ==
    IF fitz_open_ok(input_bytes) /\ fitz_pages_ok(input_bytes)
    THEN Ret([input_bytes EXCEPT !.part = "page1", !.size = input_bytes.pageSize],
             <<Call("get_first_page", input_bytes.part)>>, <<>>)
    ELSE Raise(<<Call("get_first_page", input_bytes.part)>>, <<>>)

compress_standard(input_bytes) ==
    IF fitz_open_ok(input_bytes) /\ fitz_pages_ok(input_bytes)
    THEN Ret([input_bytes EXCEPT !.enc = "deflate",
                                 !.size = DeflatedSize(input_bytes.size)],
             <<Call("compress_standard", input_bytes.part)>>, <<>>)
    ELSE Raise(<<Call("compress_standard", input_bytes.part)>>, <<>>)

\* Variant: the interpolation starts at 41 instead of 40.
target_dpi_from41(strength_level) == (140 * 60 - 90 * (strength_level - 41)) \div 60

\* int() of a positive float is its floor; (strength_level - 40) / 60.0 is
\* kept as a fraction over 60.
target_dpi(strength_level) == (140 * 60 - 90 * (strength_level - 40)) \div 60

target_quality(strength_level) == (80 * 60 - 60 * (strength_level - 40)) \div 60

\* Variant: without pdftoppm the function returns an empty byte string.
compress_strong_empty(input_bytes, strength_level) ==
    LET head == <<Call("compress_strong", input_bytes.part),
                  Call("shutil.which", input_bytes.part)>>
    IN  IF ~poppler
        THEN Ret([input_bytes EXCEPT !.size = 0, !.enc = "empty"], head,
                 <<"error: Poppler not found.">>)
        ELSE IF poppler_render_ok(input_bytes)
             THEN Ret([input_bytes EXCEPT !.enc = "jpeg",
                                          !.dpi = target_dpi(strength_level),
                                          !.quality = target_quality(strength_level),
                                          !.size = JpegSize(input_bytes.size,
                                                            target_dpi(strength_level),
                                                            target_quality(strength_level))],
                      head \o <<Call("convert_from_bytes", input_bytes.part),
                                Call("img2pdf.convert", input_bytes.part)>>,
                      <<>>)
             ELSE Raise(head \o <<Call("convert_from_bytes", input_bytes.part)>>, <<>>)

\* Variant: without pdftoppm the function reports and then raises.
compress_strong_raises(input_bytes, strength_level) ==
    LET head == <<Call("compress_strong", input_bytes.part),
                  Call("shutil.which", input_bytes.part)>>
    IN  IF ~poppler
        THEN Raise(head, <<"error: Poppler not found.">>)
        ELSE IF poppler_render_ok(input_bytes)
             THEN Ret([input_bytes EXCEPT !.enc = "jpeg",
                                          !.dpi = target_dpi(strength_level),
                                          !.quality = target_quality(strength_level),
                                          !.size = JpegSize(input_bytes.size,
                                                            target_dpi(strength_level),
                                                            target_quality(strength_level))],
                      head \o <<Call("convert_from_bytes", input_bytes.part),
                                Call("img2pdf.convert", input_bytes.part)>>,
                      <<>>)
             ELSE Raise(head \o <<Call("convert_from_bytes", input_bytes.part)>>, <<>>)

compress_strong(input_bytes, strength_level) ==
    LET dpiv == target_dpi(strength_level)
        qv   == target_quality(strength_level)
        head == <<Call("compress_strong", input_bytes.part),
                  Call("shutil.which", input_bytes.part)>>
        conv == <<Call("convert_from_bytes", input_bytes.part)>>
    IN  IF ~poppler
        THEN Ret(input_bytes, head, <<"error: Poppler not found.">>)
        ELSE IF poppler_render_ok(input_bytes)
             THEN Ret([input_bytes EXCEPT !.enc = "jpeg", !.dpi = dpiv,
                                          !.quality = qv,
                                          !.size = JpegSize(input_bytes.size, dpiv, qv)],
                      head \o conv \o <<Call("img2pdf.convert", input_bytes.part)>>,
                      <<>>)
             ELSE Raise(head \o conv, <<>>)

\* ---- what a script run renders ----
NoMetrics == [shown |-> FALSE, orig |-> 0, num |-> 0, den |-> 1, sav |-> 0]

\* orig_size, estimated_total_size = num / den, savings = sav / den percent
Metrics(orig_size, sample_new_size, first_page_orig_size) ==
    [shown |-> TRUE, orig |-> orig_size,
     num |-> orig_size * sample_new_size, den |-> first_page_orig_size,
     sav |-> (first_page_orig_size - sample_new_size) * 100]

View(c, m, cap, msgs, fs, dl, cr) ==
    [calls |-> c, metrics |-> m, caption |-> cap, messages |-> msgs,
     final_size |-> fs, download |-> dl, crashed |-> cr]

EmptyView == View(<<>>, NoMetrics, "", <<>>, -1, NoBytes, FALSE)

EstimateWarning == "warning: Could not estimate size (file might be encrypted or empty)."

\* ---- 1. Compress PDF ----
\* Variant: the threshold test is strict, so strength 40 takes the lossy path.
EstimateBranch_strict(first_page_bytes, s) ==
    IF s < LosslessMax
    THEN [res |-> compress_standard(first_page_bytes), mode_text |-> "Standard (Lossless)"]
    ELSE [res |-> compress_strong(first_page_bytes, s), mode_text |-> "Strong (Lossy)"]

\* lines 100-105: compress the sample page based on the current slider
EstimateBranch(first_page_bytes, s) ==
    IF s <= LosslessMax
    THEN [res |-> compress_standard(first_page_bytes), mode_text |-> "Standard (Lossless)"]
    ELSE [res |-> compress_strong(first_page_bytes, s), mode_text |-> "Strong (Lossy)"]

\* Variant: the division by a zero sample size is outside the try block.
Estimation_zero_escapes(file_bytes, s) ==
    LET fp == get_first_page(file_bytes)
        br == EstimateBranch(fp.val, s)
        cs == br.res
    IN  IF ~fp.ok
        THEN View(fp.log, NoMetrics, "", <<EstimateWarning>>, -1, NoBytes, FALSE)
        ELSE IF ~cs.ok
        THEN View(fp.log \o cs.log, NoMetrics, "",
                  cs.msgs \o <<EstimateWarning>>, -1, NoBytes, FALSE)
        ELSE IF fp.val.size = 0
        THEN View(fp.log \o cs.log, NoMetrics, "", cs.msgs, -1, NoBytes, TRUE)
        ELSE View(fp.log \o cs.log,
                  Metrics(file_bytes.size, cs.val.size, fp.val.size),
                  br.mode_text, cs.msgs, -1, NoBytes, FALSE)

\* lines 94-124: the try block and its except Exception
Estimation(file_bytes, s) ==
    LET fp == get_first_page(file_bytes)
        br == EstimateBranch(fp.val, s)
        cs == br.res
    IN  IF ~fp.ok
        THEN View(fp.log, NoMetrics, "", <<EstimateWarning>>, -1, NoBytes, FALSE)
        ELSE IF ~cs.ok \/ fp.val.size = 0      \* library error, ZeroDivisionError
        THEN View(fp.log \o cs.log, NoMetrics, "",
                  cs.msgs \o <<EstimateWarning>>, -1, NoBytes, FALSE)
        ELSE View(fp.log \o cs.log,
                  Metrics(file_bytes.size, cs.val.size, fp.val.size),
                  br.mode_text, cs.msgs, -1, NoBytes, FALSE)

\* lines 131-134
FullBranch(file_bytes, s) ==
    IF s <= LosslessMax
    THEN compress_standard(file_bytes)
    ELSE compress_strong(file_bytes, s)

\* Variant: the button body runs only when an estimate is on display.
CompressButton_needs_estimate(est, file_bytes, s) ==
    LET r == FullBranch(file_bytes, s)
    IN  IF ~est.metrics.shown
        THEN est
        ELSE IF r.ok
        THEN View(est.calls \o r.log, est.metrics, est.caption,
                  est.messages \o r.msgs \o <<"success: Done!">>,
                  r.val.size, r.val, FALSE)
        ELSE View(est.calls \o r.log, est.metrics, est.caption,
                  est.messages \o r.msgs, -1, NoBytes, TRUE)

\* lines 129-144: the body of `if st.button("Compress")`, after the estimate
CompressButton(est, file_bytes, s) ==
    LET r == FullBranch(file_bytes, s)
    IN  IF r.ok
        THEN View(est.calls \o r.log, est.metrics, est.caption,
                  est.messages \o r.msgs \o <<"success: Done!">>,
                  r.val.size, r.val, FALSE)
        ELSE View(est.calls \o r.log, est.metrics, est.caption,
                  est.messages \o r.msgs, -1, NoBytes, TRUE)

\* Variant: the full compression runs in every script run, clicked or not.
CompressPage_eager(up, s, clicked) ==
    IF up = <<>>
    THEN EmptyView
    ELSE CompressButton(Estimation(up[1], s), up[1], s)

\* lines 72-144
CompressPage(up, s, clicked) ==
    IF up = <<>>
    THEN EmptyView
    ELSE LET file_bytes == up[1]
             est == Estimation(file_bytes, s)
         IN  IF clicked THEN CompressButton(est, file_bytes, s) ELSE est

\* ---- 2. Merge PDFs ----
\* PdfWriter.append reads each file with pypdf.
pypdf_read_ok(b) == b.kind \in {"valid", "unrenderable", "zeropage"}

RECURSIVE SumSizes(_)
SumSizes(fs) == IF fs = <<>> THEN 0 ELSE fs[1].size + SumSizes(Tail(fs))

\* lines 147-157
MergePage(up, clicked) ==
    IF up = <<>> \/ ~clicked
    THEN EmptyView
    ELSE LET log == [i \in 1..Len(up) |-> Call("merger.append", up[i].part)]
         IN  IF \A i \in 1..Len(up) : pypdf_read_ok(up[i])
             THEN View(log, NoMetrics, "", <<"success: Merged!">>, -1,
                       [up[1] EXCEPT !.kind = "valid", !.enc = "merged",
                                     !.size = SumSizes(up)],
                       FALSE)
             ELSE View(log, NoMetrics, "", <<>>, -1, NoBytes, TRUE)

\* ---- 3. Convert PDF to Images ----
\* Variant: convert_from_bytes is called without the shutil.which check, and
\* fails when pdftoppm is missing.
PdfToImagesPage_unchecked(up, clicked) ==
    IF up = <<>> \/ ~clicked
    THEN EmptyView
    ELSE LET conv == <<Call("convert_from_bytes", up[1].part)>>
         IN  IF poppler /\ poppler_render_ok(up[1])
             THEN View(conv, NoMetrics, "", <<"success: Extracted pages.">>,
                       -1, [up[1] EXCEPT !.enc = "zip"], FALSE)
             ELSE View(conv, NoMetrics, "", <<>>, -1, NoBytes, TRUE)

\* lines 160-176
PdfToImagesPage(up, clicked) ==
    IF up = <<>> \/ ~clicked
    THEN EmptyView
    ELSE LET which == <<Call("shutil.which", up[1].part)>>
             conv  == <<Call("convert_from_bytes", up[1].part)>>
         IN  IF ~poppler
             THEN View(which, NoMetrics, "", <<"error: Poppler is missing.">>,
                       -1, NoBytes, FALSE)
             ELSE IF poppler_render_ok(up[1])
                  THEN View(which \o conv, NoMetrics, "", <<"success: Extracted pages.">>,
                            -1, [up[1] EXCEPT !.enc = "zip"], FALSE)
                  ELSE View(which \o conv, NoMetrics, "", <<>>, -1, NoBytes, TRUE)

\* ---- 4. Convert Images to PDF ----
\* Image.open(f).convert('RGB') decodes each file with Pillow.
pil_open_ok(b) == b.kind = "image"

\* lines 179-188
ImagesToPdfPage(up, clicked) ==
    IF up = <<>> \/ ~clicked
    THEN EmptyView
    ELSE LET log == [i \in 1..Len(up) |-> Call("Image.open", up[i].part)]
         IN  IF \A i \in 1..Len(up) : pil_open_ok(up[i])
             THEN View(log, NoMetrics, "", <<"success: Created!">>, -1,
                       [up[1] EXCEPT !.kind = "valid", !.enc = "pdf",
                                     !.size = SumSizes(up)],
                       FALSE)
             ELSE View(log, NoMetrics, "", <<>>, -1, NoBytes, TRUE)

\* ---- one script run ----
\* lines 17-20, 72, 147, 160, 179: dispatch on the selectbox
Script(o, up, s, clicked) ==
    IF o = "Compress PDF" THEN CompressPage(up, s, clicked)
    ELSE IF o = "Merge PDFs" THEN MergePage(up, clicked)
    ELSE IF o = "Convert PDF to Images" THEN PdfToImagesPage(up, clicked)
    ELSE ImagesToPdfPage(up, clicked)

Rerun(o, up, s, trig) ==
    /\ option' = o
    /\ uploaded' = up
    /\ strength' = s
    /\ trigger' = trig
    /\ view' = Script(o, up, s, trig = "button")
    /\ UNCHANGED poppler

\* ---- widgets ----
SingleFile(o) == o \in {"Compress PDF", "Convert PDF to Images"}

Accepts(o) == IF o = "Convert Images to PDF" THEN ImageUploads ELSE PdfUploads

\* The slider is rendered only on the Compress page with a file present; a
\* widget that is not rendered loses its value and next shows value=30.
SliderValue(o, up, s) ==
    IF o = "Compress PDF" /\ up # <<>> THEN s ELSE SliderDefault

Init ==
    /\ option = "Merge PDFs"
    /\ uploaded = <<>>
    /\ strength = SliderDefault
    /\ poppler \in BOOLEAN
    /\ trigger = "start"
    /\ view = EmptyView

\* line 17: another action is chosen in the sidebar
SelectOption(o) ==
    /\ o # option
    /\ \E up \in (IF SingleFile(o) /\ SingleFile(option) THEN {uploaded, <<>>} ELSE {<<>>}) :
          Rerun(o, up, SliderValue(o, <<>>, strength), "option")

\* lines 74, 149, 162, 181: a file is added to the uploader
UploadFile(f) ==
    /\ f \in Accepts(option)
    /\ IF SingleFile(option)
       THEN /\ uploaded # <<f>>
            /\ Rerun(option, <<f>>, strength, "upload")
       ELSE /\ Len(uploaded) < MaxFiles
            /\ Rerun(option, Append(uploaded, f), strength, "upload")

\* the file at position i is removed from the uploader
RemoveFile(i) ==
    /\ i \in 1..Len(uploaded)
    /\ LET up == SubSeq(uploaded, 1, i - 1) \o SubSeq(uploaded, i + 1, Len(uploaded))
       IN  Rerun(option, up, SliderValue(option, up, strength), "remove")

\* Variant: moving the slider keeps what the previous run rendered.
ChangeStrength_stale(s) ==
    /\ option = "Compress PDF"
    /\ uploaded # <<>>
    /\ s # strength
    /\ strength' = s
    /\ trigger' = "slider"
    /\ UNCHANGED <<option, uploaded, poppler, view>>

\* line 85: the slider is released on a new value
ChangeStrength(s) ==
    /\ option = "Compress PDF"
    /\ uploaded # <<>>
    /\ s # strength
    /\ Rerun(option, uploaded, s, "slider")

\* line 129
ClickCompress ==
    /\ option = "Compress PDF"
    /\ uploaded # <<>>
    /\ Rerun(option, uploaded, strength, "button")

\* line 150
ClickMerge ==
    /\ option = "Merge PDFs"
    /\ uploaded # <<>>
    /\ Rerun(option, uploaded, strength, "button")

\* line 163
ClickConvert ==
    /\ option = "Convert PDF to Images"
    /\ uploaded # <<>>
    /\ Rerun(option, uploaded, strength, "button")

\* line 182
ClickCreatePdf ==
    /\ option = "Convert Images to PDF"
    /\ uploaded # <<>>
    /\ Rerun(option, uploaded, strength, "button")

\* lines 139, 157, 176, 188: a download button click re-runs the script
ClickDownload ==
    /\ view.download # NoBytes
    /\ Rerun(option, uploaded, strength, "download")

Next ==
    \/ \E o \in Options : SelectOption(o)
    \/ \E f \in PdfUploads \cup ImageUploads : UploadFile(f)
    \/ \E i \in 1..MaxFiles : RemoveFile(i)
    \/ \E s \in Strengths : ChangeStrength(s)
    \/ ClickCompress
    \/ ClickMerge
    \/ ClickConvert
    \/ ClickCreatePdf
    \/ ClickDownload

Spec == Init /\ [][Next]_vars

TypeOK ==
    /\ option \in Options
    /\ strength \in Strengths
    /\ poppler \in BOOLEAN
    /\ Len(uploaded) <= (IF SingleFile(option) THEN 1 ELSE MaxFiles)
    /\ \A i \in 1..Len(uploaded) : uploaded[i] \in Accepts(option)
    /\ view.crashed \in BOOLEAN
    /\ view.final_size \in -1..(1 + 2 * MaxSize)

\* ---- observations of the latest run ----
\* the Compress page got past `if uploaded_file:` (line 76)
OnCompress == option = "Compress PDF" /\ uploaded # <<>>

Called(fn, part) == \E i \in 1..Len(view.calls) : view.calls[i] = Call(fn, part)

CalledFn(fn) == \E i \in 1..Len(view.calls) : view.calls[i].fn = fn

Shown(msg) == \E i \in 1..Len(view.messages) : view.messages[i] = msg

\* get_first_page returns a sample for this file (line 96 does not raise)
Sampled(d) == fitz_open_ok(d) /\ fitz_pages_ok(d)

\* ---- claims ----

\* C1: on the Compress page, for every strength 0..100 and every document,
\* the estimation step and the Compress-triggered full compression call
\* compress_standard when strength <= 40 and compress_strong when strength
\* > 40 (40 lossless, 41 lossy), and a displayed mode label is "Standard
\* (Lossless)" exactly when strength <= 40 and "Strong (Lossy)" otherwise.
C1_PathByThreshold ==
    OnCompress =>
        /\ Called("compress_standard", "page1") <=> (Sampled(uploaded[1]) /\ strength <= 40)
        /\ Called("compress_strong", "page1") <=> (Sampled(uploaded[1]) /\ strength > 40)
        /\ Called("compress_standard", "whole") <=> (trigger = "button" /\ strength <= 40)
        /\ Called("compress_strong", "whole") <=> (trigger = "button" /\ strength > 40)
        /\ view.metrics.shown =>
              /\ view.caption = "Standard (Lossless)" <=> strength <= 40
              /\ view.caption = "Strong (Lossy)" <=> strength > 40
        /\ strength = 40 => ~CalledFn("compress_strong")
        /\ strength = 41 => ~CalledFn("compress_standard")

C1_Witness ==
    /\ OnCompress
    /\ strength = 41
    /\ trigger = "button"
    /\ Called("compress_strong", "page1")
    /\ Called("compress_strong", "whole")
    /\ view.caption = "Strong (Lossy)"

\* C2: when pdftoppm is absent, compress_strong of any input at any strength
\* reports the missing dependency, does not raise, and returns exactly its
\* input bytes; the Compress run then offers exactly the uploaded bytes.
C2_MissingPopplerReturnsInput ==
    (OnCompress /\ ~poppler /\ strength > LosslessMax) =>
        LET d == uploaded[1]
            r == compress_strong(d, strength)
        IN  /\ r.ok
            /\ r.val = d
            /\ r.msgs = <<"error: Poppler not found.">>
            /\ trigger = "button" =>
                  /\ view.download = d
                  /\ ~view.crashed
                  /\ Shown("error: Poppler not found.")

C2_Witness ==
    /\ OnCompress
    /\ ~poppler
    /\ strength > LosslessMax
    /\ trigger = "button"
    /\ view.download = uploaded[1]
    /\ Shown("error: Poppler not found.")

\* C3: a failure raised by the libraries during the Compress-triggered full
\* compression never escapes the run as an unhandled exception.
C3_FullFailureCaught ==
    (OnCompress /\ trigger = "button") => ~view.crashed

\* C4: every failure inside the estimation step (first-page extraction on a
\* malformed, encrypted or zero-page document, a failing sample compression,
\* a zero-size sample) ends with the "unavailable" warning and no metrics; it
\* never escapes, and the run goes on to the Compress button.
C4_EstimationFailureContained ==
    OnCompress =>
        LET d == uploaded[1]
            failed == \/ ~Sampled(d)
                      \/ d.pageSize = 0
                      \/ strength > LosslessMax /\ poppler /\ ~poppler_render_ok(d)
        IN  /\ failed => (Shown(EstimateWarning) /\ ~view.metrics.shown /\ view.caption = "")
            /\ view.metrics.shown <=> ~Shown(EstimateWarning)
            /\ trigger # "button" => ~view.crashed
            /\ trigger = "button" =>
                  (Called("compress_standard", "whole") \/ Called("compress_strong", "whole"))

C4_Witness ==
    /\ OnCompress
    /\ uploaded[1].kind = "zeropage"
    /\ Shown(EstimateWarning)
    /\ ~view.metrics.shown
    /\ ~view.crashed

\* C5: the whole document is compressed only in a run triggered by the
\* Compress button; a run caused by a strength change compresses only the
\* one-page sample; bytes offered for download on the Compress page are the
\* output of the full branch on the whole uploaded document, never a sample.
C5_FullOnlyOnTrigger ==
    OnCompress =>
        /\ \A i \in 1..Len(view.calls) :
              view.calls[i].part = "whole" /\ view.calls[i].fn # "get_first_page"
                 => trigger = "button"
        /\ trigger = "slider" =>
              \A i \in 1..Len(view.calls) :
                 view.calls[i].fn \in {"compress_standard", "compress_strong",
                                       "convert_from_bytes", "img2pdf.convert"}
                    => view.calls[i].part = "page1"
        /\ trigger # "button" => (view.download = NoBytes /\ view.final_size = -1)
        /\ view.download # NoBytes =>
              /\ view.download.part = "whole"
              /\ view.download = FullBranch(uploaded[1], strength).val
              /\ view.final_size = view.download.size

C5_Witness ==
    /\ OnCompress
    /\ trigger = "slider"
    /\ Called("compress_strong", "page1")
    /\ Called("convert_from_bytes", "page1")
    /\ view.metrics.shown
    /\ view.download = NoBytes

C7_AbsenceDetectedFirst ==
    /\ \A i \in 1..Len(view.calls) :
          view.calls[i].fn = "convert_from_bytes" =>
             /\ poppler
             /\ \E j \in 1..(i - 1) : view.calls[j].fn = "shutil.which"
    /\ (~poppler /\ CalledFn("compress_strong")) => Shown("error: Poppler not found.")
    /\ (~poppler /\ option = "Convert PDF to Images" /\ uploaded # <<>>
          /\ trigger = "button") =>
             /\ Shown("error: Poppler is missing.")
             /\ view.download = NoBytes
             /\ ~view.crashed

C7_Witness ==
    /\ ~poppler
    /\ option = "Convert PDF to Images"
    /\ trigger = "button"
    /\ Shown("error: Poppler is missing.")
    /\ CalledFn("shutil.which")
    /\ view.download = NoBytes

\* C8: an estimate on display (metrics and mode label) is the one computed
\* from the current strength and the currently uploaded document; nothing
\* of the estimate is displayed outside the Compress page.
C8_EstimateFresh ==
    /\ view.metrics.shown => OnCompress
    /\ OnCompress =>
          LET e == Estimation(uploaded[1], strength)
          IN  /\ view.metrics = e.metrics
              /\ view.caption = e.caption
              /\ view.metrics.shown =>
                    /\ view.metrics.orig = uploaded[1].size
                    /\ view.metrics.den = uploaded[1].pageSize
                    /\ view.caption = "Strong (Lossy)" <=> strength > LosslessMax

C8_Witness ==
    /\ OnCompress
    /\ trigger = "slider"
    /\ strength > LosslessMax
    /\ view.metrics.shown
    /\ view.caption = "Strong (Lossy)"

\* C9: a Compress click always runs the full compression, also when the
\* estimate of that run is unavailable, and what it produces depends only on
\* the uploaded document and the current strength.
C9_FullIndependentOfEstimate ==
    (OnCompress /\ trigger = "button") =>
        LET d == uploaded[1]
            lossless == strength <= LosslessMax
        IN  /\ Called("compress_standard", "whole") \/ Called("compress_strong", "whole")
            /\ view.crashed <=>
                  \/ lossless /\ ~Sampled(d)
                  \/ ~lossless /\ poppler /\ ~poppler_render_ok(d)
            /\ ~view.crashed =>
                  /\ view.download.kind = d.kind
                  /\ view.download.part = "whole"
                  /\ view.download.enc =
                        (IF lossless THEN "deflate" ELSE IF poppler THEN "jpeg" ELSE "orig")
                  /\ view.download.dpi = (IF ~lossless /\ poppler THEN target_dpi(strength) ELSE 0)
                  /\ view.download.quality =
                        (IF ~lossless /\ poppler THEN target_quality(strength) ELSE 0)
                  /\ Shown("success: Done!")

C9_Witness ==
    /\ OnCompress
    /\ trigger = "button"
    /\ Shown(EstimateWarning)
    /\ ~view.metrics.shown
    /\ view.download.enc = "deflate"
    /\ Shown("success: Done!")

\* C10 as stated: with strength > 40 and pdftoppm absent a Compress run ends
\* in success with the uploaded bytes for download and final size equal to
\* the original size, and its estimate is available with ratio 1 and label
\* "Strong (Lossy)".
C10_Original ==
    (OnCompress /\ trigger = "button" /\ strength > LosslessMax /\ ~poppler) =>
        /\ ~view.crashed
        /\ Shown("error: Poppler not found.")
        /\ Shown("success: Done!")
        /\ view.final_size = uploaded[1].size
        /\ view.download = uploaded[1]
        /\ view.metrics.shown
        /\ view.metrics.num = view.metrics.orig * view.metrics.den
        /\ view.metrics.sav = 0
        /\ view.caption = "Strong (Lossy)"

\* C10 amended: with strength > 40 and pdftoppm absent a Compress run ends
\* in success with the uploaded bytes for download and final size equal to
\* the original size; its estimate shows ratio 1 and "Strong (Lossy)" when
\* first-page extraction yields a non-empty sample, and is "unavailable"
\* otherwise.
C10_FallbackReachesDone ==
    (OnCompress /\ trigger = "button" /\ strength > LosslessMax /\ ~poppler) =>
        /\ ~view.crashed
        /\ Shown("error: Poppler not found.")
        /\ Shown("success: Done!")
        /\ view.final_size = uploaded[1].size
        /\ view.download = uploaded[1]
        /\ (Sampled(uploaded[1]) /\ uploaded[1].pageSize > 0) =>
              /\ view.metrics.shown
              /\ view.metrics.num = view.metrics.orig * view.metrics.den
              /\ view.metrics.sav = 0
              /\ view.caption = "Strong (Lossy)"
              /\ ~Shown(EstimateWarning)
        /\ ~(Sampled(uploaded[1]) /\ uploaded[1].pageSize > 0) =>
              /\ ~view.metrics.shown
              /\ Shown(EstimateWarning)

C10_Witness ==
    /\ OnCompress
    /\ trigger = "button"
    /\ strength > LosslessMax
    /\ ~poppler
    /\ Shown("success: Done!")
    /\ view.download = uploaded[1]
    /\ view.metrics.shown
    /\ view.metrics.sav = 0

====
